---------------------------- MODULE Spec2Model ----------------------------
(***************************************************************************)
(* A model of the onepiece command line driver (src/onepiece/cli.py): the  *)
(* chapter loop of download_main, the multi-comic batch loops around it,   *)
(* the chapter-selection resolver it calls and the image worker pool.      *)
(*                                                                         *)
(* Strings that the program parses are sequences of one-character strings  *)
(* ("1-3" is <<"1", "-", "3">>), so that parsing is computed, not assumed. *)
(***************************************************************************)
EXTENDS Integers, Sequences, FiniteSets, TLC

VARIABLES
    mode,             \* how download_main is reached: "direct", or a branch of main()
    kwargs,           \* download_main_kwargs (cli.py:372-389)
    pc,               \* position of the coordinating flow
    last,             \* comicbook.get_last_chapter_number(ext_name) of the current comic
    is_gen_pdf,       \* download_main's local is_gen_pdf (cli.py:157)
    chapter_numbers,  \* download_main's resolved list (cli.py:159)
    idx,              \* position of the for loop in chapter_numbers (cli.py:163)
    chapter_dirs,     \* download_main's chapter_dirs (cli.py:162, 170)
    pdf_path,         \* download_main's pdf_path: 0 while unbound, else the chapter it names
    start,            \* download_main's start (cli.py:194), 0 while unbound
    end,              \* download_main's end (cli.py:195), 0 while unbound
    todo,             \* comics of the batch listing not yet taken
    cur,              \* history: artifacts produced for the chapter of this iteration
    failed,           \* history: the step of this iteration that raised, or "none"
    attempted,        \* history: chapter numbers whose iteration was entered, in order
    delays,           \* history: crawler delays finished in this download_main call
    raisedBy,         \* history: the step whose exception reached the top level
    fetched,          \* history: some chapter was fetched by the run
    written,          \* history: some chapter artifact was written by the run
    processed,        \* history: comics of the batch whose download_main call returned
    mailed,           \* history: <<chapter, pdf_path>> of every mail sent in this call
    merged,           \* history: <<kind, start, end, chapter_dirs>> of every merge done
    skipped,          \* history: <<chapter, step>> of every iteration that raised
    urls,             \* WorkerPool.fetchAll: the url sequence
    poolSize,         \* WorkerPool.fetchAll: number of workers
    queue,            \* WorkerPool.fetchAll: shared queue of indices not yet taken
    busy,             \* WorkerPool.fetchAll: worker -> index being fetched, 0 when idle
    results,          \* WorkerPool.fetchAll: the pre-sized result slots
    fetches,          \* history: index -> number of fetches started for it
    ppc,              \* WorkerPool.fetchAll: "idle", "running" or "returned"
    tags,             \* TagsItem.tags (crawlerbase.py:141): groups of [category, tags]
    tagCalls,         \* history: <<category, name, tag>> of every add_tag call, in order
    default_ext_name, \* ComicBookItem.default_ext_name (crawlerbase.py:36)
    citems,           \* ComicBookItem.citems (crawlerbase.py:39): tracks in insertion order
    chapterCalls,     \* history: the arguments of every add_chapter call, in order
    seleniumInstalled,\* whether "from selenium import webdriver" succeeds
    DRIVER_PATH,      \* CrawlerBase.DRIVER_PATH (crawlerbase.py:174, cli.py:335)
    DRIVER_TYPE,      \* CrawlerBase.DRIVER_TYPE (crawlerbase.py:175, cli.py:337)
    DRIVER_INSTANCE,  \* the crawler's DRIVER_INSTANCE: 0 for None, else a driver id
    driver,           \* selenium_login's local driver, 0 while unbound
    hasCheck,         \* whether check_login_status_func is callable in this call
    lpc,              \* position in selenium_login
    created,          \* history: number of drivers constructed (their ids are 1..created)
    quitted,          \* history: ids of the drivers whose quit() was called
    rounds,           \* history: iterations of the waiting loop entered in this call
    logins,           \* history: selenium_login calls made
    exitPath          \* history: the way the last selenium_login call ended

runVars == <<mode, kwargs, pc, last, is_gen_pdf, chapter_numbers, idx, chapter_dirs,
             pdf_path, start, end, todo, cur, failed, attempted, delays, raisedBy,
             fetched, written, processed, mailed, merged, skipped>>
poolVars == <<urls, poolSize, queue, busy, results, fetches, ppc>>
itemVars == <<tags, tagCalls, default_ext_name, citems, chapterCalls>>
loginVars == <<seleniumInstalled, DRIVER_PATH, DRIVER_TYPE, DRIVER_INSTANCE, driver,
               hasCheck, lpc, created, quitted, rounds, logins, exitPath>>
vars == <<runVars, poolVars, itemVars, loginVars>>

----------------------------------------------------------------------------
(* Bounds of the model. *)

\* largest last chapter number a comic has
MaxLast == 2
\* longest selection string enumerated character by character
MaxLen == 3
\* most comics in one batch listing
MaxComics == 2
\* most urls handed to one fetchAll call
MaxUrls == 3
\* largest worker pool
MaxPool == 2
\* most add_tag calls made on one TagsItem
MaxTagCalls == 4
\* most add_chapter calls made on one ComicBookItem
MaxChapterCalls == 3
\* most iterations of selenium_login's waiting loop in one call
MaxRounds == 2
\* most selenium_login calls on one crawler
MaxLogins == 2

----------------------------------------------------------------------------
(* ChapterSpecifier: parser_chapter_str(chapter_str, last_chapter_number,  *)
(* is_all), the resolver download_main calls at cli.py:159.                *)

Digits == {"0", "1", "2", "3", "4", "5", "6", "7", "8", "9"}

DigitVal(c) ==
    CASE c = "0" -> 0 [] c = "1" -> 1 [] c = "2" -> 2 [] c = "3" -> 3
      [] c = "4" -> 4 [] c = "5" -> 5 [] c = "6" -> 6 [] c = "7" -> 7
      [] c = "8" -> 8 [] c = "9" -> 9

RECURSIVE NatVal(_)
NatVal(t) ==
    IF t = <<>> THEN 0
    ELSE 10 * NatVal(SubSeq(t, 1, Len(t) - 1)) + DigitVal(t[Len(t)])

IsNat(t) == Len(t) > 0 /\ \A i \in 1..Len(t) : t[i] \in Digits

\* a single signed integer
IsInt(t) == IsNat(t) \/ (Len(t) > 1 /\ t[1] = "-" /\ IsNat(Tail(t)))

IntVal(t) == IF t[1] = "-" THEN 0 - NatVal(Tail(t)) ELSE NatVal(t)

\* the positions of the "-" that separates the two signed integers of a range
RangeCuts(t) ==
    {p \in 2..(Len(t) - 1) :
        /\ t[p] = "-"
        /\ IsInt(SubSeq(t, 1, p - 1))
        /\ IsInt(SubSeq(t, p + 1, Len(t)))}

IsRange(t) == RangeCuts(t) # {}

\* the comma-separated tokens of a selection string
RECURSIVE Tokens(_)
Tokens(s) ==
    IF \A i \in 1..Len(s) : s[i] # ","
    THEN <<s>>
    ELSE LET p == CHOOSE i \in 1..Len(s) :
                    s[i] = "," /\ \A j \in 1..(i - 1) : s[j] # ","
         IN  <<SubSeq(s, 1, p - 1)>> \o Tokens(SubSeq(s, p + 1, Len(s)))

\* a non-negative integer is used as-is, a negative one counts back from last
ResolveIndex(n, lastIndex) == IF n < 0 THEN lastIndex + 1 + n ELSE n

\* the inclusive ascending run a..b (empty when b < a)
Run(a, b) == [i \in 1..(b - a + 1) |-> a + i - 1]

ExpandToken(t, lastIndex) ==
    IF IsInt(t)
    THEN <<ResolveIndex(IntVal(t), lastIndex)>>
    ELSE LET p == CHOOSE q \in RangeCuts(t) : TRUE
             a == ResolveIndex(IntVal(SubSeq(t, 1, p - 1)), lastIndex)
             b == ResolveIndex(IntVal(SubSeq(t, p + 1, Len(t))), lastIndex)
         IN  IF a <= b THEN Run(a, b) ELSE Run(b, a)

RECURSIVE ExpandAll(_, _)
ExpandAll(ts, lastIndex) ==
    IF ts = <<>> THEN <<>>
    ELSE ExpandToken(Head(ts), lastIndex) \o ExpandAll(Tail(ts), lastIndex)

InSeq(x, s) == \E i \in 1..Len(s) : s[i] = x

\* duplicates removed, the first occurrence kept
RECURSIVE Dedup(_)
Dedup(s) ==
    IF s = <<>> THEN <<>>
    ELSE LET front == Dedup(SubSeq(s, 1, Len(s) - 1))
         IN  IF InSeq(s[Len(s)], front) THEN front ELSE Append(front, s[Len(s)])

InvalidSpecifier == [ok |-> FALSE, nums |-> <<>>]

Resolved(nums) == [ok |-> TRUE, nums |-> nums]

parser_chapter_str(chapter_str, last_chapter_number, is_all) ==
    IF last_chapter_number < 1 THEN InvalidSpecifier
    ELSE IF is_all \/ chapter_str = <<"a", "l", "l">>
         THEN Resolved(Run(1, last_chapter_number))
    ELSE LET ts == Tokens(chapter_str)
         IN  IF \E i \in 1..Len(ts) : ~(IsInt(ts[i]) \/ IsRange(ts[i]))
             THEN InvalidSpecifier
             ELSE Resolved(Dedup(ExpandAll(ts, last_chapter_number)))


----------------------------------------------------------------------------
(* download_main (cli.py:152-206), one action per statement group.  Every  *)
(* external call (adapter, assembler, mail, merge) either returns or       *)
(* raises; which of the two is chosen freely at the call.                  *)

\* the default selection missing
ChapterStrNoDefault(chapters) == chapters

\* cli.py:158  chapter_str = chapters or '-1'
ChapterStr(chapters) == IF chapters = <<>> THEN <<"-", "1">> ELSE chapters

\* cli.py:163  the loop variable
chapter_number == chapter_numbers[idx]

\* fetchChapter: a chapter number outside the known range is ChapterNotFound
ChapterExists(n) == n \in 1..last

\* an exception that no handler catches ends the run at the top level
Raise(site) == pc' = "raised" /\ raisedBy' = site

\* the handler missing: the exception of a chapter step leaves download_main
ChapterExceptPropagates(step) ==
    /\ failed' = step
    /\ skipped' = skipped \cup {<<chapter_number, step>>}
    /\ pc' = "raised"
    /\ raisedBy' = step

\* the sleep placed inside the try: a failed chapter goes on without it
ChapterExceptSkipsDelay(step) ==
    /\ failed' = step
    /\ skipped' = skipped \cup {<<chapter_number, step>>}
    /\ pc' = "loop"
    /\ raisedBy' = raisedBy

\* cli.py:187-189  except Exception: logger.exception(...)
ChapterExcept(step) ==
    /\ failed' = step
    /\ skipped' = skipped \cup {<<chapter_number, step>>}
    /\ pc' = "delay"
    /\ raisedBy' = raisedBy

\* the PDF generated only on its own flag
GenPdfIgnoresMail == kwargs.is_gen_pdf

\* cli.py:157  is_gen_pdf = is_gen_pdf or mail
GenPdf == kwargs.is_gen_pdf \/ kwargs.mail

\* cli.py:157-162
DM_Resolve ==
    /\ pc = "dm_entry"
    /\ is_gen_pdf' = GenPdf
    /\ LET r == parser_chapter_str(ChapterStr(kwargs.chapters), last,
                                   kwargs.is_download_all)
       IN  IF r.ok
           THEN /\ chapter_numbers' = r.nums
                /\ pc' = "loop"
                /\ raisedBy' = raisedBy
           ELSE /\ Raise("parser_chapter_str")
                /\ chapter_numbers' = <<>>
    /\ chapter_dirs' = <<>>
    /\ idx' = 0
    /\ pdf_path' = 0
    /\ start' = 0
    /\ end' = 0
    /\ cur' = {}
    /\ failed' = "none"
    /\ attempted' = <<>>
    /\ delays' = 0
    /\ mailed' = {}
    /\ merged' = {}
    /\ skipped' = {}
    /\ UNCHANGED <<mode, kwargs, last, todo, fetched, written, processed, poolVars, itemVars, loginVars>>

\* cli.py:163  for chapter_number in chapter_numbers
DM_Loop ==
    /\ pc = "loop"
    /\ IF idx < Len(chapter_numbers)
       THEN /\ idx' = idx + 1
            /\ attempted' = Append(attempted, chapter_numbers[idx + 1])
            /\ cur' = {}
            /\ failed' = "none"
            /\ pc' = "fetch"
       ELSE /\ pc' = "merge"
            /\ UNCHANGED <<idx, attempted, cur, failed>>
    /\ UNCHANGED <<mode, kwargs, last, is_gen_pdf, chapter_numbers, chapter_dirs,
                   pdf_path, start, end, todo, delays, raisedBy, fetched, written,
                   processed, mailed, merged, skipped, poolVars, itemVars, loginVars>>

\* cli.py:165-167  chapter = comicbook.Chapter(chapter_number, ext_name=ext_name)
DM_Fetch ==
    /\ pc = "fetch"
    /\ \E ok \in BOOLEAN :
         IF ok /\ ChapterExists(chapter_number)
         THEN /\ fetched' = TRUE
              /\ pc' = "save"
              /\ UNCHANGED <<failed, raisedBy, skipped>>
         ELSE /\ ChapterExcept("fetch")
              /\ UNCHANGED fetched
    /\ UNCHANGED <<mode, kwargs, last, is_gen_pdf, chapter_numbers, idx, chapter_dirs,
                   pdf_path, start, end, todo, cur, attempted, delays, written,
                   processed, mailed, merged, poolVars, itemVars, loginVars>>

\* the directory recorded before chapter.save has returned
DM_SaveRecordsFirst ==
    /\ pc = "save"
    /\ chapter_dirs' = Append(chapter_dirs, chapter_number)
    /\ \E ok \in BOOLEAN :
         IF ok
         THEN /\ cur' = cur \cup {"folder"}
              /\ written' = TRUE
              /\ pc' = "single_image"
              /\ UNCHANGED <<failed, raisedBy, skipped>>
         ELSE /\ ChapterExcept("save")
              /\ UNCHANGED <<cur, written>>
    /\ UNCHANGED <<mode, kwargs, last, is_gen_pdf, chapter_numbers, idx, pdf_path,
                   start, end, todo, attempted, delays, fetched, processed, mailed,
                   merged, poolVars, itemVars, loginVars>>

\* cli.py:169-171  chapter_dir = chapter.save(...); chapter_dirs.append(chapter_dir)
DM_Save ==
    /\ pc = "save"
    /\ \E ok \in BOOLEAN :
         IF ok
         THEN /\ chapter_dirs' = Append(chapter_dirs, chapter_number)
              /\ cur' = cur \cup {"folder"}
              /\ written' = TRUE
              /\ pc' = "single_image"
              /\ UNCHANGED <<failed, raisedBy, skipped>>
         ELSE /\ ChapterExcept("save")
              /\ UNCHANGED <<chapter_dirs, cur, written>>
    /\ UNCHANGED <<mode, kwargs, last, is_gen_pdf, chapter_numbers, idx, pdf_path,
                   start, end, todo, attempted, delays, fetched, processed, mailed,
                   merged, poolVars, itemVars, loginVars>>

\* cli.py:172-174  if is_single_image: chapter.save_as_single_image(...)
DM_SingleImage ==
    /\ pc = "single_image"
    /\ IF kwargs.is_single_image
       THEN \E ok \in BOOLEAN :
              IF ok
              THEN /\ cur' = cur \cup {"single_image"}
                   /\ written' = TRUE
                   /\ pc' = "pdf"
                   /\ UNCHANGED <<failed, raisedBy, skipped>>
              ELSE /\ ChapterExcept("single_image")
                   /\ UNCHANGED <<cur, written>>
       ELSE /\ pc' = "pdf"
            /\ UNCHANGED <<cur, written, failed, raisedBy, skipped>>
    /\ UNCHANGED <<mode, kwargs, last, is_gen_pdf, chapter_numbers, idx, chapter_dirs,
                   pdf_path, start, end, todo, attempted, delays, fetched, processed,
                   mailed, merged, poolVars, itemVars, loginVars>>

\* variant of the PDF step that swallows its own failure and goes on to the
\* mail step with pdf_path as the previous iteration left it
DM_PdfFailureSwallowed ==
    /\ pc = "pdf"
    /\ IF is_gen_pdf
       THEN \E ok \in BOOLEAN :
              IF ok
              THEN /\ pdf_path' = chapter_number
                   /\ cur' = cur \cup {"pdf"}
                   /\ written' = TRUE
              ELSE UNCHANGED <<pdf_path, cur, written>>
       ELSE UNCHANGED <<pdf_path, cur, written>>
    /\ pc' = "mail"
    /\ UNCHANGED <<failed, raisedBy, skipped>>
    /\ UNCHANGED <<mode, kwargs, last, is_gen_pdf, chapter_numbers, idx, chapter_dirs,
                   start, end, todo, attempted, delays, fetched, processed, mailed,
                   merged, poolVars, itemVars, loginVars>>

\* cli.py:175-177  if is_gen_pdf: pdf_path = chapter.save_as_pdf(...)
DM_Pdf ==
    /\ pc = "pdf"
    /\ IF is_gen_pdf
       THEN \E ok \in BOOLEAN :
              IF ok
              THEN /\ pdf_path' = chapter_number
                   /\ cur' = cur \cup {"pdf"}
                   /\ written' = TRUE
                   /\ pc' = "mail"
                   /\ UNCHANGED <<failed, raisedBy, skipped>>
              ELSE /\ ChapterExcept("pdf")
                   /\ UNCHANGED <<pdf_path, cur, written>>
       ELSE /\ pc' = "mail"
            /\ UNCHANGED <<pdf_path, cur, written, failed, raisedBy, skipped>>
    /\ UNCHANGED <<mode, kwargs, last, is_gen_pdf, chapter_numbers, idx, chapter_dirs,
                   start, end, todo, attempted, delays, fetched, processed, mailed,
                   merged, poolVars, itemVars, loginVars>>

\* cli.py:179-183  if is_send_mail: mail.send(subject=basename(pdf_path), ...)
\* mail.send on None and the read of an unbound pdf_path both raise
DM_Mail ==
    /\ pc = "mail"
    /\ IF kwargs.is_send_mail
       THEN \E ok \in BOOLEAN :
              IF ok /\ kwargs.mail /\ pdf_path # 0
              THEN /\ mailed' = mailed \cup {<<chapter_number, pdf_path>>}
                   /\ pc' = "zip"
                   /\ UNCHANGED <<failed, raisedBy, skipped>>
              ELSE /\ ChapterExcept("mail")
                   /\ UNCHANGED mailed
       ELSE /\ pc' = "zip"
            /\ UNCHANGED <<mailed, failed, raisedBy, skipped>>
    /\ UNCHANGED <<mode, kwargs, last, is_gen_pdf, chapter_numbers, idx, chapter_dirs,
                   pdf_path, start, end, todo, cur, attempted, delays, fetched,
                   written, processed, merged, poolVars, itemVars, loginVars>>

\* cli.py:184-186  if is_gen_zip: chapter.save_as_zip(...)
DM_Zip ==
    /\ pc = "zip"
    /\ IF kwargs.is_gen_zip
       THEN \E ok \in BOOLEAN :
              IF ok
              THEN /\ cur' = cur \cup {"zip"}
                   /\ written' = TRUE
                   /\ pc' = "delay"
                   /\ UNCHANGED <<failed, raisedBy, skipped>>
              ELSE /\ ChapterExcept("zip")
                   /\ UNCHANGED <<cur, written>>
       ELSE /\ pc' = "delay"
            /\ UNCHANGED <<cur, written, failed, raisedBy, skipped>>
    /\ UNCHANGED <<mode, kwargs, last, is_gen_pdf, chapter_numbers, idx, chapter_dirs,
                   pdf_path, start, end, todo, attempted, delays, fetched, processed,
                   mailed, merged, poolVars, itemVars, loginVars>>

\* cli.py:190  if crawler_delay:
NextAfterTry == IF kwargs.crawler_delay # 0 THEN "sleep" ELSE "loop"

\* cli.py:190-192  the statement after the try: the sleep is entered here
DM_Delay ==
    /\ pc = "delay"
    /\ pc' = NextAfterTry
    /\ UNCHANGED <<mode, kwargs, last, is_gen_pdf, chapter_numbers, idx, chapter_dirs,
                   pdf_path, start, end, todo, cur, failed, attempted, delays,
                   raisedBy, fetched, written, processed, mailed, merged, skipped, poolVars, itemVars, loginVars>>

\* cli.py:192  time.sleep(crawler_delay) returns
DM_Wake ==
    /\ pc = "sleep"
    /\ delays' = delays + 1
    /\ pc' = "loop"
    /\ UNCHANGED <<mode, kwargs, last, is_gen_pdf, chapter_numbers, idx, chapter_dirs,
                   pdf_path, start, end, todo, cur, failed, attempted, raisedBy,
                   fetched, written, processed, mailed, merged, skipped, poolVars, itemVars, loginVars>>

\* cli.py:194  start = chapter_numbers[0]
MergeStart == chapter_numbers[1]

\* cli.py:195  end = chapter_numbers[-1]
MergeEnd == chapter_numbers[Len(chapter_numbers)]

\* cli.py:194-200  start, end; if merge: merge_books(chapter_dirs, merge_dir)
DM_Merge ==
    /\ pc = "merge"
    /\ IF chapter_numbers = <<>>
       THEN /\ Raise("IndexError")
            /\ UNCHANGED <<start, end, merged>>
       ELSE /\ start' = MergeStart
            /\ end' = MergeEnd
            /\ IF kwargs.merge
               THEN \E ok \in BOOLEAN :
                      IF ok
                      THEN /\ merged' = merged \cup
                                  {<<"dir", start', end', chapter_dirs>>}
                           /\ pc' = "merge_zip"
                           /\ UNCHANGED raisedBy
                      ELSE /\ Raise("merge_books")
                           /\ UNCHANGED merged
               ELSE /\ pc' = "merge_zip"
                    /\ UNCHANGED <<merged, raisedBy>>
    /\ UNCHANGED <<mode, kwargs, last, is_gen_pdf, chapter_numbers, idx, chapter_dirs,
                   pdf_path, todo, cur, failed, attempted, delays, fetched,
                   written, processed, mailed, skipped, poolVars, itemVars, loginVars>>

\* cli.py:202-206  if merge_zip: merge_zip_books(chapter_dirs, merge_zip_path)
DM_MergeZip ==
    /\ pc = "merge_zip"
    /\ IF kwargs.merge_zip
       THEN \E ok \in BOOLEAN :
              IF ok
              THEN /\ merged' = merged \cup {<<"zip", start, end, chapter_dirs>>}
                   /\ pc' = "return"
                   /\ UNCHANGED raisedBy
              ELSE /\ Raise("merge_zip_books")
                   /\ UNCHANGED merged
       ELSE /\ pc' = "return"
            /\ UNCHANGED <<merged, raisedBy>>
    /\ UNCHANGED <<mode, kwargs, last, is_gen_pdf, chapter_numbers, idx, chapter_dirs,
                   pdf_path, start, end, todo, cur, failed, attempted, delays,
                   fetched, written, processed, mailed, skipped, poolVars, itemVars, loginVars>>

\* download_main returns to its caller: main() (cli.py:403) or a batch loop
DM_Return ==
    /\ pc = "return"
    /\ processed' = processed + 1
    /\ pc' = IF mode \in {"direct", "single"} THEN "done" ELSE "batch_loop"
    /\ UNCHANGED <<mode, kwargs, last, is_gen_pdf, chapter_numbers, idx, chapter_dirs,
                   pdf_path, start, end, todo, cur, failed, attempted, delays,
                   raisedBy, fetched, written, mailed, merged, skipped, poolVars, itemVars, loginVars>>

DownloadMain ==
    \/ DM_Resolve \/ DM_Loop \/ DM_Fetch \/ DM_Save \/ DM_SingleImage \/ DM_Pdf
    \/ DM_Mail \/ DM_Zip \/ DM_Delay \/ DM_Wake \/ DM_Merge \/ DM_MergeZip
    \/ DM_Return

----------------------------------------------------------------------------
(* Inputs. *)

\* the characters selection strings are enumerated over
Alphabet == {"0", "1", "2", "3", "-", ",", "x"}

Strings(n) == UNION {[1..k -> Alphabet] : k \in 0..n}

\* selection strings used when a whole run is explored
SelSamples == {<<>>, <<"2", ",", "1">>, <<"1", "-", "2">>, <<"1", "x">>}

Flags ==
    [is_download_all : BOOLEAN, is_gen_pdf : BOOLEAN, is_gen_zip : BOOLEAN,
     is_single_image : BOOLEAN, mail : BOOLEAN, is_send_mail : BOOLEAN,
     merge : BOOLEAN, merge_zip : BOOLEAN, crawler_delay : {0, 1}]

WithChapters(f, c) ==
    [chapters |-> c, is_download_all |-> f.is_download_all,
     is_gen_pdf |-> f.is_gen_pdf, is_gen_zip |-> f.is_gen_zip,
     is_single_image |-> f.is_single_image, mail |-> f.mail,
     is_send_mail |-> f.is_send_mail, merge |-> f.merge,
     merge_zip |-> f.merge_zip, crawler_delay |-> f.crawler_delay]

PoolIdle ==
    /\ urls = <<>>
    /\ poolSize = 1
    /\ queue = <<>>
    /\ busy = <<0>>
    /\ results = <<>>
    /\ fetches = <<>>
    /\ ppc = "idle"

\* crawlerbase.py:140-141  a TagsItem as constructed
TagsFresh ==
    /\ tags = <<>>
    /\ tagCalls = <<>>

\* crawlerbase.py:39  a ComicBookItem as constructed: no track yet
ChaptersFresh ==
    /\ citems = <<>>
    /\ chapterCalls = <<>>

\* a fresh TagsItem and a fresh ComicBookItem made by a crawler
\* (crawlerbase.py:272-275, default_ext_name = DEFAULT_EXT_NAME = "")
ItemsFresh ==
    /\ TagsFresh
    /\ default_ext_name = ""
    /\ ChaptersFresh

\* crawlerbase.py:174-178  the class attributes before any configuration, and
\* no selenium_login call made
LoginIdle ==
    /\ seleniumInstalled = FALSE
    /\ DRIVER_PATH = ""
    /\ DRIVER_TYPE = "None"
    /\ DRIVER_INSTANCE = 0
    /\ driver = 0
    /\ hasCheck = FALSE
    /\ lpc = "idle"
    /\ created = 0
    /\ quitted = {}
    /\ rounds = 0
    /\ logins = 0
    /\ exitPath = "none"

RunFresh ==
    /\ is_gen_pdf = FALSE
    /\ chapter_numbers = <<>>
    /\ idx = 0
    /\ chapter_dirs = <<>>
    /\ pdf_path = 0
    /\ start = 0
    /\ end = 0
    /\ cur = {}
    /\ failed = "none"
    /\ attempted = <<>>
    /\ delays = 0
    /\ raisedBy = "none"
    /\ fetched = FALSE
    /\ written = FALSE
    /\ processed = 0
    /\ mailed = {}
    /\ merged = {}
    /\ skipped = {}

----------------------------------------------------------------------------
(* Spec: download_main called on one comic, with every combination of its  *)
(* parameters.                                                             *)

Init ==
    /\ mode = "direct"
    /\ pc = "dm_entry"
    /\ last \in 0..MaxLast
    /\ todo = 0
    /\ \E f \in Flags, c \in SelSamples : kwargs = WithChapters(f, c)
    /\ RunFresh
    /\ LoginIdle
    /\ ItemsFresh
    /\ PoolIdle

Next == DownloadMain

Spec == Init /\ [][Next]_vars


----------------------------------------------------------------------------
(* Claims about download_main, checked under Spec. *)

\* the steps inside the try of the chapter loop
ChapterSteps == {"fetch", "save", "single_image", "pdf", "mail", "zip"}

\* positions after the chapter loop
AfterLoop == {"merge", "merge_zip", "return", "done"}

ToSet(s) == {s[i] : i \in 1..Len(s)}

\* C1: a failure of any step of one chapter is caught at the chapter loop and
\* never ends the run: the chapters entered so far are the first idx numbers of
\* the resolved list, in list order, each once; once the loop is left (also when
\* a merge then raises) every number of the list has been entered; and the
\* exception that ends a run never comes from a chapter step.
C1_EveryChapterAttempted ==
    /\ attempted = SubSeq(chapter_numbers, 1, idx)
    /\ pc \in AfterLoop => attempted = chapter_numbers
    /\ pc = "raised" =>
         /\ raisedBy \notin ChapterSteps
         /\ raisedBy \in {"merge_books", "merge_zip_books"} =>
              attempted = chapter_numbers

\* C1 witness: the first chapter of a two-chapter list failed and the second
\* was still entered and saved
C1_Witness ==
    /\ pc = "return"
    /\ Len(chapter_numbers) = 2
    /\ \E st \in ChapterSteps : <<chapter_numbers[1], st>> \in skipped
    /\ chapter_dirs = <<chapter_numbers[2]>>

\* C3: a chapter whose chapter.save raised has no artifact: no folder is
\* recorded for it, none of the single-image, PDF, mail and zip steps is entered
\* for it, and the chapters saved before it stay recorded.
C3_FailedSaveNoArtifact ==
    \A k \in skipped :
        k[2] = "save" =>
            /\ ~InSeq(k[1], chapter_dirs)
            /\ \A m \in mailed : m[1] # k[1]
            /\ pdf_path # k[1]
            /\ (idx > 0 /\ chapter_number = k[1]) =>
                   /\ cur = {}
                   /\ failed = "save"
                   /\ pc \notin {"single_image", "pdf", "mail", "zip"}

\* C3 witness: the save of the first chapter raised, the second chapter got
\* every artifact that was asked for
C3_Witness ==
    /\ pc = "return"
    /\ Len(chapter_numbers) = 2
    /\ skipped = {<<chapter_numbers[1], "save">>}
    /\ chapter_dirs = <<chapter_numbers[2]>>
    /\ cur = {"folder", "single_image", "pdf", "zip"}

\* C4: with a crawler delay configured, exactly one delay has finished after
\* each chapter, failed or not, before the next chapter is entered: while
\* chapter idx is processed (or its delay runs) idx - 1 delays have finished,
\* and everywhere else idx delays have.
C4_OneDelayPerChapter ==
    (kwargs.crawler_delay # 0 /\ pc # "dm_entry") =>
        /\ pc \in ChapterSteps \cup {"delay", "sleep"} => delays = idx - 1
        /\ pc \notin ChapterSteps \cup {"delay", "sleep"} => delays = idx
        /\ pc \in AfterLoop => delays = Len(chapter_numbers)

\* C4 witness: two chapters, one failed and one saved, two delays finished
C4_Witness ==
    /\ pc = "return"
    /\ kwargs.crawler_delay # 0
    /\ Len(chapter_numbers) = 2
    /\ Len(chapter_dirs) = 1
    /\ skipped # {}
    /\ delays = 2

\* C9 (as claimed): the (start, end) pair naming a merged output spans the
\* chapters merged: start <= n <= end for every merged chapter n.
C9_NameSpansMerged ==
    \A m \in merged : \A i \in 1..Len(m[4]) : m[2] <= m[4][i] /\ m[4][i] <= m[3]

\* the steps of an iteration up to and including st
UpTo(st) ==
    CASE st = "save" -> {"fetch", "save"}
      [] st = "single_image" -> {"fetch", "save", "single_image"}
      [] st = "pdf" -> {"fetch", "save", "single_image", "pdf"}
      [] st = "zip" -> ChapterSteps

\* C10 (as claimed): at the end of the iteration of a chapter whose folder was
\* saved, each other artifact type whose own production did not fail is
\* produced if and only if it was selected.
C10_Independent ==
    (pc = "delay" /\ "folder" \in cur) =>
        /\ failed # "single_image" =>
             ("single_image" \in cur <=> kwargs.is_single_image)
        /\ failed # "pdf" => ("pdf" \in cur <=> kwargs.is_gen_pdf)
        /\ failed # "zip" => ("zip" \in cur <=> kwargs.is_gen_zip)

\* C10 (amended): at the end of an iteration the folder is produced exactly
\* when fetch and save did not fail; the single image exactly when it was
\* selected and no step up to it failed; the PDF exactly when it was selected
\* or a mail object was passed, and no step up to it failed; the zip exactly
\* when it was selected and no step of the iteration failed.
C10_SelectedUnlessEarlierFailure ==
    pc = "delay" =>
        /\ "folder" \in cur <=> failed \notin UpTo("save")
        /\ "single_image" \in cur <=>
             (kwargs.is_single_image /\ failed \notin UpTo("single_image"))
        /\ "pdf" \in cur <=>
             ((kwargs.is_gen_pdf \/ kwargs.mail) /\ failed \notin UpTo("pdf"))
        /\ "zip" \in cur <=> (kwargs.is_gen_zip /\ failed \notin UpTo("zip"))

\* C10 witness: the PDF was produced for the mail option alone, and its mail
\* failed, so the selected zip was not produced
C10_Witness ==
    /\ pc = "delay"
    /\ ~kwargs.is_gen_pdf
    /\ kwargs.mail
    /\ kwargs.is_gen_zip
    /\ failed = "mail"
    /\ cur = {"folder", "pdf"}


\* the chapters of the resolved list none of whose steps failed, in list order
SucceededChapters ==
    LET ok(n) == \A st \in ChapterSteps : <<n, st>> \notin skipped
    IN  SelectSeq(chapter_numbers, ok)

\* C13 (as claimed): the list of chapter directories that download_main hands
\* to merge_books / merge_zip_books after the chapter loop holds exactly the
\* chapters every requested step of which completed without failure, each
\* once, in the order of the resolved list.
C13_DirsAreSucceededChapters ==
    \A m \in merged : m[4] = SucceededChapters

\* C15: every mail sent for a chapter carries the PDF written for that chapter
\* in that chapter's own iteration: the attached path is the path of the
\* mailed chapter, the PDF step of that chapter ran and did not fail, and a
\* call with neither is_gen_pdf nor a mail object sends no mail at all.
C15_MailCarriesOwnPdf ==
    /\ \A m \in mailed :
          /\ m[2] = m[1]
          /\ <<m[1], "pdf">> \notin skipped
          /\ InSeq(m[1], SubSeq(chapter_numbers, 1, idx))
          /\ (idx > 0 /\ chapter_number = m[1]) => "pdf" \in cur
    /\ (mailed # {}) => (kwargs.is_gen_pdf \/ kwargs.mail)

\* C15 witness: the PDF of the first chapter was written, the PDF of the
\* second was written and mailed, without is_gen_pdf being selected
C15_Witness ==
    /\ pc = "return"
    /\ ~kwargs.is_gen_pdf
    /\ Len(chapter_numbers) = 2
    /\ <<chapter_numbers[1], "mail">> \in skipped
    /\ mailed = {<<chapter_numbers[2], chapter_numbers[2]>>}


----------------------------------------------------------------------------
(* SpecResolve: the resolution step of download_main (cli.py:157-161) on   *)
(* every selection string of at most MaxLen characters and on the examples *)
(* of the specification.                                                   *)

NoFlags ==
    [is_download_all |-> FALSE, is_gen_pdf |-> FALSE, is_gen_zip |-> FALSE,
     is_single_image |-> FALSE, mail |-> FALSE, is_send_mail |-> FALSE,
     merge |-> FALSE, merge_zip |-> FALSE, crawler_delay |-> 0]

Sel_m1 == <<"-", "1">>
Sel_m2 == <<"-", "2">>
Sel_all == <<"a", "l", "l">>
Sel_3to1 == <<"3", "-", "1">>
Sel_7_1to5 == <<"7", ",", "1", "-", "5">>
Sel_1to5_7_9to10 == <<"1", "-", "5", ",", "7", ",", "9", "-", "1", "0">>

\* <<selection, lastIndex>> pairs of the specification's examples
Examples ==
    {<<Sel_m1, 100>>, <<Sel_m2, 100>>, <<<<>>, 100>>, <<Sel_1to5_7_9to10, 100>>,
     <<Sel_all, 5>>, <<Sel_3to1, 10>>, <<Sel_7_1to5, 10>>}

InitResolve ==
    /\ mode = "direct"
    /\ pc = "dm_entry"
    /\ todo = 0
    /\ \E e \in (Strings(MaxLen) \X (0..MaxLast)) \cup Examples, all \in BOOLEAN :
         /\ kwargs = WithChapters([NoFlags EXCEPT !.is_download_all = all], e[1])
         /\ last = e[2]
    /\ RunFresh
    /\ LoginIdle
    /\ ItemsFresh
    /\ PoolIdle

NextResolve == DM_Resolve

SpecResolve == InitResolve /\ [][NextResolve]_vars

\* C6 (as claimed): for an accepted selection and lastIndex >= 1 every
\* resolved index is >= 1.
C6_AllPositive ==
    (pc = "loop" /\ last >= 1) =>
        \A i \in 1..Len(chapter_numbers) : chapter_numbers[i] >= 1

\* what the grammar and the resolution rule say of one token, as a set (the
\* token "-0" is the integer 0, which is not negative)
TokenSet(t, lastIndex) ==
    LET val(u) == IF u[1] # "-" THEN NatVal(u)
                  ELSE IF NatVal(Tail(u)) = 0 THEN 0
                  ELSE lastIndex + 1 - NatVal(Tail(u))
    IN  IF IsInt(t) THEN {val(t)}
        ELSE UNION {LET a == val(SubSeq(t, 1, p - 1))
                        b == val(SubSeq(t, p + 1, Len(t)))
                    IN  (a..b) \cup (b..a) : p \in RangeCuts(t)}

\* the first token of ts that yields n
FirstToken(n, ts, lastIndex) ==
    CHOOSE i \in 1..Len(ts) :
        /\ n \in TokenSet(ts[i], lastIndex)
        /\ \A j \in 1..(i - 1) : n \notin TokenSet(ts[j], lastIndex)

----------------------------------------------------------------------------
(* SpecBatch: main() (cli.py:391-403) in its four run modes.  No caller of *)
(* download_main has a handler, so an exception that leaves download_main, *)
(* start_crawler or echo_comicbook_desc ends the run.                      *)

MainModes == {"single", "url_file", "latest_all", "tag_all"}

BatchModes == {"url_file", "latest_all", "tag_all"}

\* cli.py:391-403  the branch of main() taken
Main ==
    /\ pc = "main"
    /\ pc' = IF mode = "single" THEN "start_crawler" ELSE "listing"
    /\ UNCHANGED <<mode, kwargs, last, is_gen_pdf, chapter_numbers, idx, chapter_dirs,
                   pdf_path, start, end, todo, cur, failed, attempted, delays,
                   raisedBy, fetched, written, processed, mailed, merged, skipped,
                   poolVars, itemVars, loginVars>>

\* cli.py:212-213, 223-224, 233-234  the comics of the batch: the lines of the
\* url file, or the listing comicbook.latest / get_tag_result returns for the
\* default page; opening the file or fetching the listing may raise
Listing ==
    /\ pc = "listing"
    /\ \/ /\ todo' \in 0..MaxComics
          /\ pc' = "batch_loop"
          /\ UNCHANGED raisedBy
       \/ /\ Raise("listing")
          /\ UNCHANGED todo
    /\ UNCHANGED <<mode, kwargs, last, is_gen_pdf, chapter_numbers, idx, chapter_dirs,
                   pdf_path, start, end, cur, failed, attempted, delays, fetched,
                   written, processed, mailed, merged, skipped, poolVars, itemVars, loginVars>>

\* cli.py:213-214, 224-225, 234-245  the next comic of the batch; a blank,
\* comment or unknown line of the url file is passed over
BatchNext ==
    /\ pc = "batch_loop"
    /\ IF todo = 0
       THEN /\ pc' = "done"
            /\ UNCHANGED todo
       ELSE /\ todo' = todo - 1
            /\ \E known \in BOOLEAN :
                 pc' = IF mode = "url_file" /\ ~known THEN "batch_loop"
                       ELSE "start_crawler"
    /\ UNCHANGED <<mode, kwargs, last, is_gen_pdf, chapter_numbers, idx, chapter_dirs,
                   pdf_path, start, end, cur, failed, attempted, delays, raisedBy,
                   fetched, written, processed, mailed, merged, skipped, poolVars, itemVars, loginVars>>

\* cli.py:215, 226, 246, 401  comicbook.start_crawler(): the metadata fetch
\* raises or yields the comic, whose last chapter number is then known
StartCrawler ==
    /\ pc = "start_crawler"
    /\ \/ /\ last' \in 0..MaxLast
          /\ pc' = "echo_desc"
          /\ UNCHANGED raisedBy
       \/ /\ Raise("start_crawler")
          /\ UNCHANGED last
    /\ UNCHANGED <<mode, kwargs, is_gen_pdf, chapter_numbers, idx, chapter_dirs,
                   pdf_path, start, end, todo, cur, failed, attempted, delays,
                   fetched, written, processed, mailed, merged, skipped, poolVars, itemVars, loginVars>>

\* cli.py:216, 227, 247, 402  echo_comicbook_desc(...) (cli.py:264-273)
EchoDesc ==
    /\ pc = "echo_desc"
    /\ \/ /\ pc' = "dm_entry"
          /\ UNCHANGED raisedBy
       \/ Raise("echo_comicbook_desc")
    /\ UNCHANGED <<mode, kwargs, last, is_gen_pdf, chapter_numbers, idx, chapter_dirs,
                   pdf_path, start, end, todo, cur, failed, attempted, delays,
                   fetched, written, processed, mailed, merged, skipped, poolVars, itemVars, loginVars>>

\* cli.py:365-389  the keyword arguments main() builds: is_send_mail and the
\* mail object go together; the artifact options are taken all or none, and so
\* are the two merge options
MainFlags ==
    {f \in Flags :
        /\ f.is_send_mail = f.mail
        /\ ~f.is_download_all
        /\ f.is_gen_pdf = f.mail
        /\ f.is_gen_zip = f.mail
        /\ f.is_single_image = f.mail
        /\ f.merge_zip = f.merge}

InitBatch ==
    /\ mode \in MainModes
    /\ pc = "main"
    /\ last = 0
    /\ todo = 0
    /\ \E f \in MainFlags, c \in SelSamples : kwargs = WithChapters(f, c)
    /\ RunFresh
    /\ LoginIdle
    /\ ItemsFresh
    /\ PoolIdle

NextBatch == Main \/ Listing \/ BatchNext \/ StartCrawler \/ EchoDesc \/ DownloadMain

SpecBatch == InitBatch /\ [][NextBatch]_vars

\* the failures that belong to one comic of a batch
PerComicFailures ==
    {"start_crawler", "echo_comicbook_desc", "merge_books", "merge_zip_books"}

\* C2 (as claimed): in a batch run a failure that belongs to one comic does
\* not reach the top level, so it never ends the run with a later comic of the
\* batch left unprocessed.
C2_BatchIsolation ==
    (mode \in BatchModes /\ pc = "raised" /\ raisedBy \in PerComicFailures) =>
        todo = 0

\* C5 (as claimed): when the selection fails to resolve, in any run mode, no
\* chapter has been fetched and no artifact written by the run so far.
C5_AbortsBeforeAnyFetch ==
    (pc = "raised" /\ raisedBy = "parser_chapter_str") => (~fetched /\ ~written)

----------------------------------------------------------------------------
(* SpecPool: WorkerPool.fetchAll(urls, fetchOne, poolSize): poolSize        *)
(* workers pull (index, url) pairs from a shared queue and write the       *)
(* outcome of each fetch into the result slot of its index.                *)

UrlSet == {"u1", "u2"}

EmptySlot == [kind |-> "empty", url |-> "", task |-> 0]

\* the outcome of fetching the url of task i; task is kept as history
Outcome(ok, i) ==
    [kind |-> IF ok THEN "bytes" ELSE "error", url |-> urls[i], task |-> i]

\* results appended in completion order: the first slot still empty
FirstEmptySlot(i) ==
    CHOOSE j \in 1..Len(results) :
        results[j] = EmptySlot /\ \A k \in 1..(j - 1) : results[k] # EmptySlot

\* the slot a worker writes the outcome of task i to
SlotOf(i) == i

fetchAll_Start ==
    /\ ppc = "idle"
    /\ queue' = [i \in 1..Len(urls) |-> i]
    /\ results' = [i \in 1..Len(urls) |-> EmptySlot]
    /\ fetches' = [i \in 1..Len(urls) |-> 0]
    /\ ppc' = "running"
    /\ UNCHANGED <<urls, poolSize, busy, runVars, itemVars, loginVars>>

Worker_Take(w) ==
    /\ ppc = "running"
    /\ busy[w] = 0
    /\ queue # <<>>
    /\ busy' = [busy EXCEPT ![w] = Head(queue)]
    /\ queue' = Tail(queue)
    /\ fetches' = [fetches EXCEPT ![Head(queue)] = @ + 1]
    /\ UNCHANGED <<urls, poolSize, results, ppc, runVars, itemVars, loginVars>>

Worker_Done(w) ==
    /\ ppc = "running"
    /\ busy[w] # 0
    /\ \E ok \in BOOLEAN :
         results' = [results EXCEPT ![SlotOf(busy[w])] = Outcome(ok, busy[w])]
    /\ busy' = [busy EXCEPT ![w] = 0]
    /\ UNCHANGED <<urls, poolSize, queue, fetches, ppc, runVars, itemVars, loginVars>>

fetchAll_Return ==
    /\ ppc = "running"
    /\ queue = <<>>
    /\ \A w \in 1..poolSize : busy[w] = 0
    /\ ppc' = "returned"
    /\ UNCHANGED <<urls, poolSize, queue, busy, results, fetches, runVars, itemVars, loginVars>>

InitPool ==
    /\ mode = "direct"
    /\ pc = "dm_entry"
    /\ last = 0
    /\ todo = 0
    /\ kwargs = WithChapters(NoFlags, <<>>)
    /\ RunFresh
    /\ LoginIdle
    /\ ItemsFresh
    /\ urls \in UNION {[1..n -> UrlSet] : n \in 0..MaxUrls}
    /\ poolSize \in 1..MaxPool
    /\ queue = <<>>
    /\ busy = [w \in 1..poolSize |-> 0]
    /\ results = <<>>
    /\ fetches = <<>>
    /\ ppc = "idle"

NextPool ==
    \/ fetchAll_Start
    \/ \E w \in 1..poolSize : Worker_Take(w)
    \/ \E w \in 1..poolSize : Worker_Done(w)
    \/ fetchAll_Return

SpecPool == InitPool /\ [][NextPool]_vars

\* C8: whatever the pool size and the order in which workers take and finish
\* tasks, fetchAll returns one slot per url, slot i holding the bytes or the
\* error of the fetch of urls[i], and every url was fetched exactly once; while
\* the pool runs, a slot already written holds the outcome of its own index.
C8_SlotsFollowUrls ==
    /\ ppc # "idle" =>
         /\ Len(results) = Len(urls)
         /\ \A i \in 1..Len(results) :
              \/ results[i] = EmptySlot
              \/ /\ results[i].kind \in {"bytes", "error"}
                 /\ results[i].task = i
                 /\ results[i].url = urls[i]
         /\ \A i \in 1..Len(urls) : fetches[i] <= 1
    /\ ppc = "returned" =>
         /\ \A i \in 1..Len(urls) : results[i] # EmptySlot
         /\ \A i \in 1..Len(urls) : fetches[i] = 1

\* C8 witness: three urls, two equal, returned with the second fetch failed
\* and the others not
C8_Witness ==
    /\ ppc = "returned"
    /\ poolSize = 2
    /\ urls = <<"u1", "u2", "u1">>
    /\ results[1].kind = "bytes"
    /\ results[2].kind = "error"
    /\ results[3].kind = "bytes"

----------------------------------------------------------------------------
(* SpecTags: a TagsItem (crawlerbase.py:138-158) under any sequence of     *)
(* add_tag calls.                                                          *)

Categories == {"c1", "c2"}
TagNames == {"n1", "n2"}
TagIds == {1, 2}

\* crawlerbase.py:144-145  the first group whose category equals category, 0 if none
GroupOf(category) ==
    IF \E i \in 1..Len(tags) : tags[i].category = category
    THEN CHOOSE i \in 1..Len(tags) :
           /\ tags[i].category = category
           /\ \A j \in 1..(i - 1) : tags[j].category # category
    ELSE 0

\* crawlerbase.py:146-148  some entry of the group has this tag id
HasTag(group, tag) == \E j \in 1..Len(group.tags) : group.tags[j].tag = tag

\* variant of add_tag without the tag id test of crawlerbase.py:146-148
add_tagNoIdTest(category, name, tag) ==
    /\ Len(tagCalls) < MaxTagCalls
    /\ LET i == GroupOf(category)
           entry == [name |-> name, tag |-> tag]
       IN  IF i # 0
           THEN tags' = [tags EXCEPT ![i].tags = Append(@, entry)]
           ELSE tags' = Append(tags, [category |-> category, tags |-> <<entry>>])
    /\ tagCalls' = Append(tagCalls, <<category, name, tag>>)
    /\ UNCHANGED <<default_ext_name, citems, chapterCalls, runVars, poolVars, loginVars>>

\* crawlerbase.py:143-152  TagsItem.add_tag
add_tag(category, name, tag) ==
    /\ Len(tagCalls) < MaxTagCalls
    /\ LET i == GroupOf(category)
           entry == [name |-> name, tag |-> tag]
       IN  IF i # 0
           THEN IF HasTag(tags[i], tag)
                THEN tags' = tags
                ELSE tags' = [tags EXCEPT ![i].tags = Append(@, entry)]
           ELSE tags' = Append(tags, [category |-> category, tags |-> <<entry>>])
    /\ tagCalls' = Append(tagCalls, <<category, name, tag>>)
    /\ UNCHANGED <<default_ext_name, citems, chapterCalls, runVars, poolVars, loginVars>>

InitTags ==
    /\ mode = "direct"
    /\ pc = "done"
    /\ last = 0
    /\ todo = 0
    /\ kwargs = NoFlags
    /\ RunFresh
    /\ LoginIdle
    /\ ItemsFresh
    /\ PoolIdle

NextTags ==
    \E category \in Categories, name \in TagNames, tag \in TagIds :
        add_tag(category, name, tag)

SpecTags == InitTags /\ [][NextTags]_vars

\* the calls that were the first with their (category, tag id), in call order
RECURSIVE FirstAdds(_)
FirstAdds(k) ==
    IF k = 0 THEN <<>>
    ELSE LET c == tagCalls[k]
             seen == \E j \in 1..(k - 1) :
                        tagCalls[j][1] = c[1] /\ tagCalls[j][3] = c[3]
         IN  IF seen THEN FirstAdds(k - 1) ELSE Append(FirstAdds(k - 1), c)

\* the categories in the order of their first call
RECURSIVE FirstCategories(_)
FirstCategories(k) ==
    IF k = 0 THEN <<>>
    ELSE LET c == tagCalls[k][1]
         IN  IF \E j \in 1..(k - 1) : tagCalls[j][1] = c
             THEN FirstCategories(k - 1)
             ELSE Append(FirstCategories(k - 1), c)

\* the entries of one category, in the order of their first call
EntriesOf(category) ==
    LET mine(c) == c[1] = category
        firsts == SelectSeq(FirstAdds(Len(tagCalls)), mine)
    IN  [j \in 1..Len(firsts) |-> [name |-> firsts[j][2], tag |-> firsts[j][3]]]

\* C11: after any sequence of add_tag calls no category labels two groups, no
\* tag id occurs twice in a group, and the structure is the one the first call
\* of every (category, tag id) builds: groups in the order their category was
\* first added, the entries of a group in the order their tag id was first
\* added there, each with the name of that first call; so a repeated
\* (category, tag id) changes nothing.
C11_TagsDeduplicated ==
    /\ \A i, j \in 1..Len(tags) : tags[i].category = tags[j].category => i = j
    /\ \A i \in 1..Len(tags) : \A j, k \in 1..Len(tags[i].tags) :
          tags[i].tags[j].tag = tags[i].tags[k].tag => j = k
    /\ LET cats == FirstCategories(Len(tagCalls))
       IN  tags = [i \in 1..Len(cats) |->
                     [category |-> cats[i], tags |-> EntriesOf(cats[i])]]

\* C11 witness: two groups, the first with two entries, after a call that
\* repeated the first (category, tag id) under another name
C11_Witness ==
    /\ Len(tagCalls) = 4
    /\ Len(tags) = 2
    /\ Len(tags[1].tags) = 2
    /\ tagCalls[4][1] = tagCalls[1][1]
    /\ tagCalls[4][3] = tagCalls[1][3]
    /\ tagCalls[4][2] # tagCalls[1][2]
    /\ tags[1].tags[1].name = tagCalls[1][2]

----------------------------------------------------------------------------
(* SpecChapters: a ComicBookItem (crawlerbase.py:16-83) under any sequence *)
(* of add_chapter calls and reads of its chapters property.                *)

\* Python's None, as the value of an ext_name that was not given
None == "None"

\* crawlerbase.py:24 (the default of __init__) and crawlerbase.py:172, 275
\* (DEFAULT_EXT_NAME, passed by new_comicbook_item)
DefaultExtNames == {None, ""}

\* values of add_chapter's ext_name argument
ExtArgs == {None, "", "ext"}
ChapterNumbers == {1, 2}
Titles == {"t1", "t2"}
SourceUrls == {"u"}

\* crawlerbase.py:55  ext_name or ''
OrEmpty(ext_name) == IF ext_name = None \/ ext_name = "" THEN "" ELSE ext_name

\* position of the track keyed ext_name in citems, 0 if it has none
TrackOf(ext_name) ==
    IF \E i \in 1..Len(citems) : citems[i].ext_name = ext_name
    THEN CHOOSE i \in 1..Len(citems) : citems[i].ext_name = ext_name
    ELSE 0

\* crawlerbase.py:39  defaultdict(dict): the items of a track, {} if it has none
ItemsOf(ext_name) ==
    IF TrackOf(ext_name) = 0 THEN <<>> ELSE citems[TrackOf(ext_name)].items

\* crawlerbase.py:56-57  Citem(chapter_number=..., title=..., source_url=...)
Citem(number, title, source_url) ==
    [chapter_number |-> number, title |-> title, source_url |-> source_url]

\* crawlerbase.py:54-57  ComicBookItem.add_chapter
add_chapter(number, title, source_url, ext_name) ==
    /\ Len(chapterCalls) < MaxChapterCalls
    /\ LET ext == OrEmpty(ext_name)
           i == TrackOf(ext)
           citem == Citem(number, title, source_url)
       IN  IF i # 0
           THEN citems' = [citems EXCEPT ![i].items =
                             [n \in DOMAIN @ \cup {number} |->
                                IF n = number THEN citem ELSE @[n]]]
           ELSE citems' = Append(citems,
                             [ext_name |-> ext,
                              items |-> [n \in {number} |-> citem]])
    /\ chapterCalls' = Append(chapterCalls, <<number, title, ext_name>>)
    /\ UNCHANGED <<default_ext_name, tags, tagCalls, runVars, poolVars, loginVars>>

\* crawlerbase.py:59-69  citems_to_list: the items sorted by chapter_number
RECURSIVE citems_to_list(_)
citems_to_list(items) ==
    IF DOMAIN items = {} THEN <<>>
    ELSE LET m == CHOOSE n \in DOMAIN items :
                    \A k \in DOMAIN items :
                        items[n].chapter_number <= items[k].chapter_number
             rest == [n \in DOMAIN items \ {m} |-> items[n]]
         IN  <<[title |-> items[m].title,
                chapter_number |-> items[m].chapter_number,
                source_url |-> items[m].source_url]>> \o citems_to_list(rest)

\* crawlerbase.py:71-74  the value of the chapters property
chapters == citems_to_list(ItemsOf(default_ext_name))

\* crawlerbase.py:74  reading self.citems[default_ext_name] of the defaultdict
\* creates an empty track when there is none
Read_chapters ==
    /\ TrackOf(default_ext_name) = 0
    /\ citems' = Append(citems, [ext_name |-> default_ext_name, items |-> <<>>])
    /\ UNCHANGED <<default_ext_name, chapterCalls, tags, tagCalls, runVars, poolVars, loginVars>>

\* crawlerbase.py:76-83  the value of the ext_chapters property
ext_chapters ==
    LET other(t) == t.ext_name # default_ext_name
        tracks == SelectSeq(citems, other)
    IN  [i \in 1..Len(tracks) |->
           [ext_name |-> tracks[i].ext_name,
            chapters |-> citems_to_list(tracks[i].items)]]

InitChapters ==
    /\ mode = "direct"
    /\ pc = "done"
    /\ last = 0
    /\ todo = 0
    /\ kwargs = NoFlags
    /\ RunFresh
    /\ LoginIdle
    /\ TagsFresh
    /\ default_ext_name \in DefaultExtNames
    /\ ChaptersFresh
    /\ PoolIdle

NextChapters ==
    \/ \E n \in ChapterNumbers, t \in Titles, u \in SourceUrls, e \in ExtArgs :
          add_chapter(n, t, u, e)
    \/ Read_chapters

SpecChapters == InitChapters /\ [][NextChapters]_vars

\* the track a call with this ext_name argument adds to: "" when no extension
\* name was given
KeyOfArg(e) == IF e \in {None, ""} THEN "" ELSE e

\* the chapter numbers added to the track keyed x so far
AddedTo(x) ==
    {chapterCalls[k][1] : k \in {j \in 1..Len(chapterCalls) :
                                    KeyOfArg(chapterCalls[j][3]) = x}}

\* the title of the last call that added chapter n to the track keyed x
LastTitle(x, n) ==
    LET ks == {k \in 1..Len(chapterCalls) :
                 chapterCalls[k][1] = n /\ KeyOfArg(chapterCalls[k][3]) = x}
        k == CHOOSE j \in ks : \A l \in ks : l <= j
    IN  chapterCalls[k][2]

\* a chapter list has ascending, pairwise different indices and holds exactly
\* the chapters added to the track keyed x, each with the title added last
ListsTrack(list, x) ==
    /\ \A a, b \in 1..Len(list) :
          a < b => list[a].chapter_number < list[b].chapter_number
    /\ {list[a].chapter_number : a \in 1..Len(list)} = AddedTo(x)
    /\ \A a \in 1..Len(list) :
          list[a].title = LastTitle(x, list[a].chapter_number)

\* every track lists each index added to it once, the last entry added for it,
\* in ascending order, whatever was added to the other tracks
TracksIndependent ==
    /\ \A i \in 1..Len(citems) :
          ListsTrack(citems_to_list(citems[i].items), citems[i].ext_name)
    /\ \A k \in 1..Len(chapterCalls) : TrackOf(KeyOfArg(chapterCalls[k][3])) # 0
    /\ \A i, j \in 1..Len(citems) : citems[i].ext_name = citems[j].ext_name => i = j

\* C12 (as claimed): after any sequence of add_chapter calls every track lists
\* each chapter index at most once, with the entry added last, in ascending
\* order and independently of the other tracks; the chapters property lists
\* exactly the chapters added with no extension name, and no entry of
\* ext_chapters is the track of the chapters added with no extension name.
C12_TracksAndDefaultTrack ==
    /\ TracksIndependent
    /\ ListsTrack(chapters, "")
    /\ \A i \in 1..Len(ext_chapters) : ext_chapters[i].ext_name # ""

----------------------------------------------------------------------------
(* SpecLogin: CrawlerBase.selenium_login, create_driver and close_driver   *)
(* (crawlerbase.py:315-383) on one crawler, called up to MaxLogins times.  *)

\* crawlerbase.py:177
SUPPORT_DRIVER_TYPE == {"Firefox", "Chrome", "Opera", "Ie", "Edge"}

\* what a call into the browser, the session registry or the status check does
Outcomes == {"ok", "raise"}

\* selenium_login is left by an exception raised at site
LoginRaise(site) ==
    /\ lpc' = "raised"
    /\ exitPath' = site

\* selenium_login returns
LoginReturn(how) ==
    /\ lpc' = "returned"
    /\ exitPath' = how

\* crawlerbase.py:376-380  close_driver
close_driver ==
    IF DRIVER_INSTANCE # 0
    THEN /\ quitted' = quitted \cup {DRIVER_INSTANCE}
         /\ DRIVER_INSTANCE' = 0
    ELSE UNCHANGED <<quitted, DRIVER_INSTANCE>>

\* crawlerbase.py:311-315  login() / a direct caller enters selenium_login
SL_Call ==
    /\ lpc \in {"idle", "returned", "raised"}
    /\ logins < MaxLogins
    /\ logins' = logins + 1
    /\ hasCheck' \in BOOLEAN
    /\ driver' = 0
    /\ rounds' = 0
    /\ exitPath' = "none"
    /\ lpc' = "precheck"
    /\ UNCHANGED <<seleniumInstalled, DRIVER_PATH, DRIVER_TYPE, DRIVER_INSTANCE,
                   created, quitted, runVars, poolVars, itemVars>>

\* crawlerbase.py:316-319  already logged in: return before any driver is made
SL_PreCheck ==
    /\ lpc = "precheck"
    /\ IF hasCheck
       THEN \E r \in {"true", "false", "raise"} :
              CASE r = "true" -> LoginReturn("already_logged_in")
                [] r = "false" -> lpc' = "create_driver" /\ UNCHANGED exitPath
                [] r = "raise" -> LoginRaise("check_login_status_func")
       ELSE lpc' = "create_driver" /\ UNCHANGED exitPath
    /\ UNCHANGED <<seleniumInstalled, DRIVER_PATH, DRIVER_TYPE, DRIVER_INSTANCE, driver,
                   hasCheck, created, quitted, rounds, logins, runVars, poolVars,
                   itemVars>>

\* crawlerbase.py:321, 347-374  driver = self.create_driver()
SL_CreateDriver ==
    /\ lpc = "create_driver"
    /\ IF ~seleniumInstalled \/ DRIVER_PATH = "" \/ DRIVER_TYPE \notin SUPPORT_DRIVER_TYPE
       THEN /\ LoginRaise("create_driver")
            /\ UNCHANGED <<DRIVER_INSTANCE, driver, created>>
       ELSE IF DRIVER_INSTANCE # 0
       THEN /\ driver' = DRIVER_INSTANCE
            /\ lpc' = "get"
            /\ UNCHANGED <<DRIVER_INSTANCE, created, exitPath>>
       ELSE \E r \in Outcomes :
              IF r = "ok"
              THEN /\ created' = created + 1
                   /\ DRIVER_INSTANCE' = created + 1
                   /\ driver' = created + 1
                   /\ lpc' = "get"
                   /\ UNCHANGED exitPath
              ELSE /\ LoginRaise("create_driver")
                   /\ UNCHANGED <<DRIVER_INSTANCE, driver, created>>
    /\ UNCHANGED <<seleniumInstalled, DRIVER_PATH, DRIVER_TYPE, hasCheck, quitted,
                   rounds, logins, runVars, poolVars, itemVars>>

\* crawlerbase.py:322  driver.get(login_url), outside every try
SL_Get ==
    /\ lpc = "get"
    /\ \E r \in Outcomes :
         IF r = "ok"
         THEN lpc' = "sleep" /\ UNCHANGED exitPath
         ELSE LoginRaise("driver.get")
    /\ UNCHANGED <<seleniumInstalled, DRIVER_PATH, DRIVER_TYPE, DRIVER_INSTANCE, driver,
                   hasCheck, created, quitted, rounds, logins, runVars, poolVars,
                   itemVars>>

\* crawlerbase.py:323-325  while True: time.sleep(3)
SL_Sleep ==
    /\ lpc = "sleep"
    /\ rounds < MaxRounds
    /\ rounds' = rounds + 1
    /\ lpc' = "get_cookies"
    /\ UNCHANGED <<seleniumInstalled, DRIVER_PATH, DRIVER_TYPE, DRIVER_INSTANCE, driver,
                   hasCheck, created, quitted, logins, exitPath, runVars, poolVars,
                   itemVars>>

\* crawlerbase.py:326-339  try: driver.get_cookies() ... except Exception:
\* close_driver(); return
SL_GetCookies ==
    /\ lpc = "get_cookies"
    /\ \E r \in Outcomes :
         IF r = "ok"
         THEN /\ lpc' = "update_cookies"
              /\ UNCHANGED <<exitPath, quitted, DRIVER_INSTANCE>>
         ELSE /\ close_driver
              /\ LoginReturn("get_cookies_failed")
    /\ UNCHANGED <<seleniumInstalled, DRIVER_PATH, DRIVER_TYPE, driver, hasCheck,
                   created, rounds, logins, runVars, poolVars, itemVars>>

\* crawlerbase.py:340  SessionMgr.update_cookies(...), outside the try
SL_UpdateCookies ==
    /\ lpc = "update_cookies"
    /\ \E r \in Outcomes :
         IF r = "ok"
         THEN lpc' = "check" /\ UNCHANGED exitPath
         ELSE LoginRaise("SessionMgr.update_cookies")
    /\ UNCHANGED <<seleniumInstalled, DRIVER_PATH, DRIVER_TYPE, DRIVER_INSTANCE, driver,
                   hasCheck, created, quitted, rounds, logins, runVars, poolVars,
                   itemVars>>

\* crawlerbase.py:341-345  if callable(f): if f(): close_driver(); break
SL_Check ==
    /\ lpc = "check"
    /\ IF hasCheck
       THEN \E r \in {"true", "false", "raise"} :
              CASE r = "true" -> /\ close_driver
                                 /\ LoginReturn("login_confirmed")
                [] r = "false" -> /\ lpc' = "sleep"
                                  /\ UNCHANGED <<exitPath, quitted, DRIVER_INSTANCE>>
                [] r = "raise" -> /\ LoginRaise("check_login_status_func")
                                  /\ UNCHANGED <<quitted, DRIVER_INSTANCE>>
       ELSE /\ lpc' = "sleep"
            /\ UNCHANGED <<exitPath, quitted, DRIVER_INSTANCE>>
    /\ UNCHANGED <<seleniumInstalled, DRIVER_PATH, DRIVER_TYPE, driver, hasCheck,
                   created, rounds, logins, runVars, poolVars, itemVars>>

\* crawlerbase.py:382-383  __del__: the crawler object is destroyed
Del ==
    /\ lpc \in {"idle", "returned", "raised"}
    /\ close_driver
    /\ lpc' = "deleted"
    /\ UNCHANGED <<seleniumInstalled, DRIVER_PATH, DRIVER_TYPE, driver, hasCheck,
                   created, rounds, logins, exitPath, runVars, poolVars, itemVars>>

\* cli.py:335-338  main sets DRIVER_PATH and DRIVER_TYPE from the configuration
InitLogin ==
    /\ mode = "direct"
    /\ pc = "done"
    /\ last = 0
    /\ todo = 0
    /\ kwargs = NoFlags
    /\ RunFresh
    /\ ItemsFresh
    /\ PoolIdle
    /\ seleniumInstalled \in BOOLEAN
    /\ DRIVER_PATH \in {"", "/bin/driver"}
    /\ DRIVER_TYPE \in {"None", "Chrome", "Firefox"}
    /\ DRIVER_INSTANCE = 0
    /\ driver = 0
    /\ hasCheck = FALSE
    /\ lpc = "idle"
    /\ created = 0
    /\ quitted = {}
    /\ rounds = 0
    /\ logins = 0
    /\ exitPath = "none"

NextLogin ==
    \/ SL_Call
    \/ SL_PreCheck
    \/ SL_CreateDriver
    \/ SL_Get
    \/ SL_Sleep
    \/ SL_GetCookies
    \/ SL_UpdateCookies
    \/ SL_Check
    \/ Del

SpecLogin == InitLogin /\ [][NextLogin]_vars

\* the drivers constructed and not quit
LiveDrivers == (1..created) \ quitted

\* C14 (as claimed): whenever selenium_login has returned or raised after
\* create_driver gave it a driver, that driver has been quit and
\* DRIVER_INSTANCE is None; and at most one driver is live at any time, the one
\* DRIVER_INSTANCE holds, which is the one create_driver hands out.
C14_DriverReleasedOnExit ==
    /\ (lpc \in {"returned", "raised"} /\ driver # 0) =>
          /\ DRIVER_INSTANCE = 0
          /\ driver \in quitted
    /\ LiveDrivers \subseteq {DRIVER_INSTANCE}
    /\ (driver # 0 /\ lpc \notin {"returned", "raised", "deleted"}) =>
          driver = DRIVER_INSTANCE

=============================================================================
